---- MODULE Spec2Model ----
(***************************************************************************)
(* Model of src/src/operators/operators_api.py: the async client of the   *)
(* SECOM MES Operators REST API.  A public call runs until its first       *)
(* await (the HTTP request), is resumed by the response or by a transport  *)
(* failure, and ends by returning a value or raising an exception.         *)
(*                                                                         *)
(* Python values are tagged records so that values of different Python     *)
(* types can be compared: None, str, int, list and dict.                   *)
(***************************************************************************)
EXTENDS Integers, Sequences, FiniteSets, TLC

VARIABLES pc, call, locals, result, requests, responses, open, server, clock

vars == <<pc, call, locals, result, requests, responses, open, server, clock>>

(***************************************************************************)
(* Bounds of the model.                                                    *)
(***************************************************************************)
\* longest list the server sends in a body
MaxLen == 2
\* last second the system clock reaches
MaxClock == 1

\* the coroutines that run public calls
Procs == {"c1", "c2"}

(***************************************************************************)
(* Python values.                                                          *)
(***************************************************************************)
None == [t |-> "none"]
PyStr(s) == [t |-> "str", s |-> s]
PyInt(i) == [t |-> "int", i |-> i]
PyList(l) == [t |-> "list", l |-> l]
PyDict(d) == [t |-> "dict", d |-> d]

\* bool(v): what `if v:` tests
Truthy(v) ==
    CASE v.t = "none" -> FALSE
      [] v.t = "str"  -> v.s # ""
      [] v.t = "int"  -> v.i # 0
      [] v.t = "list" -> v.l # <<>>
      [] v.t = "dict" -> DOMAIN v.d # {}

\* dict.get(key): the value stored under key, None when the key is missing
Get(v, key) == IF key \in DOMAIN v.d THEN v.d[key] ELSE None

\* len(v) of a list
PyLen(v) == Len(v.l)

(***************************************************************************)
(* Configuration.                                                          *)
(***************************************************************************)
DEFAULT_BASE_URL == "http://localhost:8080/api/v1"
OtherBaseUrl == "http://mes.example:9000/api/v1"
BaseUrls == {DEFAULT_BASE_URL, OtherBaseUrl}

(***************************************************************************)
(* Inputs of the public calls.                                             *)
(***************************************************************************)
OperatorIds == {1, 999}
DepartmentNames == {"", "Production"}
StatusNames == {"", "Active"}
Codes == {"OP001"}

\* datetime.isoformat() of the time t seconds after 2024-01-15 08:00:00
isoformat(t) == "2024-01-15T08:00:0" \o ToString(t)
Timestamps == {isoformat(t) : t \in 0..MaxClock}

Accessors == {"get_operator_by_id", "get_all_operators", "get_operator_lots",
              "get_operators_by_department", "get_operator_by_code"}
Functions == Accessors \cup {"get_operator_summary", "search_operators",
                             "safe_get_operator"}

\* arguments a function does not take
NoArgs == [operator_id |-> 0, department |-> None, status |-> None,
           code |-> "", base_url |-> DEFAULT_BASE_URL]

CallsOf(fn) ==
    CASE fn \in {"get_operator_by_id", "get_operator_lots",
                 "get_operator_summary", "safe_get_operator"} ->
            {[NoArgs EXCEPT !.operator_id = i, !.base_url = b] :
                i \in OperatorIds, b \in BaseUrls}
      [] fn = "get_all_operators" ->
            {[NoArgs EXCEPT !.base_url = b] : b \in BaseUrls}
      [] fn = "get_operators_by_department" ->
            {[NoArgs EXCEPT !.department = PyStr(d), !.base_url = b] :
                d \in DepartmentNames, b \in BaseUrls}
      [] fn = "get_operator_by_code" ->
            {[NoArgs EXCEPT !.code = c, !.base_url = b] :
                c \in Codes, b \in BaseUrls}
      [] fn = "search_operators" ->
            {[NoArgs EXCEPT !.department = d, !.status = s, !.base_url = b] :
                d \in {None} \cup {PyStr(x) : x \in DepartmentNames},
                s \in {None} \cup {PyStr(x) : x \in StatusNames},
                b \in BaseUrls}

(***************************************************************************)
(* What the MES server may send.                                           *)
(***************************************************************************)
OperatorRecords ==
    { PyDict([operatorId |-> PyInt(1), operatorName |-> PyStr("John Smith"),
            department |-> PyStr("Production"), status |-> PyStr("Active")]),
      PyDict([operatorId |-> PyInt(2), operatorName |-> PyStr("Jane Doe"),
            status |-> PyStr("Inactive")]) }
LotRecords ==
    { PyDict([lotId |-> PyInt(1), status |-> PyStr("Completed")]),
      PyDict([lotId |-> PyInt(2), status |-> PyStr("InProgress")]) }

SeqsUpTo(S, n) == UNION {[1..k -> S] : k \in 0..n}

\* a response body: JSON text of a value, or text that is not JSON
JsonBody(v) == [kind |-> "json", value |-> v]
NotJson == [kind |-> "text"]

SuccessStatuses == {200, 201}
ErrorStatuses == {404, 500}
Statuses == SuccessStatuses \cup ErrorStatuses
Is2xx(status) == status >= 200 /\ status <= 299

BodiesOf(shape) ==
    {NotJson} \cup
    CASE shape = "operator"  -> {JsonBody(o) : o \in OperatorRecords}
      [] shape = "operators" ->
            {JsonBody(PyList(l)) : l \in SeqsUpTo(OperatorRecords, MaxLen)}
      [] shape = "lots"      ->
            {JsonBody(PyList(l)) : l \in SeqsUpTo(LotRecords, MaxLen)}

HttpResponse(status, body) == [kind |-> "response", status |-> status, body |-> body]
ResponsesOf(shape) ==
    {HttpResponse(s, b) : s \in SuccessStatuses, b \in BodiesOf(shape)}
    \cup {HttpResponse(s, NotJson) : s \in ErrorStatuses}

TransportFailures ==
    {[kind |-> "transport", error |-> e] : e \in {"ConnectError", "ReadTimeout"}}

(***************************************************************************)
(* Outcomes of a call and the exception classes of httpx.                  *)
(***************************************************************************)
Return(v) == [tag |-> "return", value |-> v]
Raise(e) == [tag |-> "raise", exc |-> e]
NoResult == [tag |-> "none"]

HTTPStatusError(status) == [class |-> "HTTPStatusError", status_code |-> status]
TransportError(name) == [class |-> name]
JSONDecodeError == [class |-> "JSONDecodeError"]

\* the classes an exception is an instance of
ClassesOf(class) ==
    CASE class = "HTTPStatusError" -> {"HTTPStatusError", "HTTPError", "Exception"}
      [] class = "ConnectError" ->
            {"ConnectError", "TransportError", "RequestError", "HTTPError", "Exception"}
      [] class = "ReadTimeout" ->
            {"ReadTimeout", "TimeoutException", "TransportError", "RequestError",
             "HTTPError", "Exception"}
      [] class = "JSONDecodeError" -> {"JSONDecodeError", "ValueError", "Exception"}
IsInstance(e, class) == class \in ClassesOf(e.class)

(***************************************************************************)
(* _make_request: the request it issues, and what it does with the outcome *)
(* of client.request.                                                      *)
(***************************************************************************)
JsonHeaders == [ContentType |-> "application/json", Accept |-> "application/json"]

Request(method, endpoint, base_url, shape) ==
    [method |-> method, url |-> base_url \o endpoint, headers |-> JsonHeaders,
     timeout |-> 30, shape |-> shape]

\* a raise_for_status that raises for server errors only
raise_for_status_5xx(response) ==
    IF response.status < 500 THEN Return(response)
    ELSE Raise(HTTPStatusError(response.status))

\* response.raise_for_status()
raise_for_status(response) ==
    IF Is2xx(response.status) THEN Return(response)
    ELSE Raise(HTTPStatusError(response.status))

\* the part of _make_request after `await client.request(...)`
_make_request(outcome) ==
    IF outcome.kind = "transport" THEN Raise(TransportError(outcome.error))
    ELSE raise_for_status(outcome)

\* response.json()
json(response) ==
    IF response.body.kind = "json" THEN Return(response.body.value)
    ELSE Raise(JSONDecodeError)

\* `response = await _make_request(...); return response.json()`
Accessor(outcome) ==
    LET r == _make_request(outcome)
    IN  IF r.tag = "raise" THEN r ELSE json(r.value)

(***************************************************************************)
(* The request each accessor issues.                                       *)
(***************************************************************************)
get_operator_by_id(operator_id, base_url) ==
    Request("GET", "/operators/" \o ToString(operator_id), base_url, "operator")
get_all_operators(base_url) ==
    Request("GET", "/operators", base_url, "operators")
\* a get_operator_lots that does not forward the base URL of its caller
get_operator_lots_default_base(operator_id, base_url) ==
    Request("GET", "/operators/" \o ToString(operator_id) \o "/lots",
            DEFAULT_BASE_URL, "lots")

get_operator_lots(operator_id, base_url) ==
    Request("GET", "/operators/" \o ToString(operator_id) \o "/lots", base_url, "lots")
get_operators_by_department(department, base_url) ==
    Request("GET", "/operators/department/" \o department, base_url, "operators")
get_operator_by_code(code, base_url) ==
    Request("GET", "/operators/code/" \o code, base_url, "operator")

(***************************************************************************)
(* The utility functions.                                                  *)
(***************************************************************************)
\* a summary that counts the fields of the operator instead of the lots
get_operator_summary_len_operator(operator, lots, now) ==
    PyDict([operator |-> operator,
            lots |-> lots,
            total_lots |-> PyInt(Cardinality(DOMAIN operator.d)),
            departments |-> PyList(<<Get(operator, "department")>>),
            summary_generated_at |-> PyStr(isoformat(now))])

\* a summary whose departments is the bare department, not a list of it
get_operator_summary_bare_department(operator, lots, now) ==
    PyDict([operator |-> operator,
            lots |-> lots,
            total_lots |-> PyInt(PyLen(lots)),
            departments |-> Get(operator, "department"),
            summary_generated_at |-> PyStr(isoformat(now))])

\* a summary stamped with the time the module was imported
get_operator_summary_import_time(operator, lots, now) ==
    PyDict([operator |-> operator,
            lots |-> lots,
            total_lots |-> PyInt(PyLen(lots)),
            departments |-> PyList(<<Get(operator, "department")>>),
            summary_generated_at |-> PyStr(isoformat(0))])

\* the record get_operator_summary builds from the two bodies
get_operator_summary(operator, lots, now) ==
    PyDict([operator |-> operator,
            lots |-> lots,
            total_lots |-> PyInt(PyLen(lots)),
            departments |-> PyList(<<Get(operator, "department")>>),
            summary_generated_at |-> PyStr(isoformat(now))])

\* the first request of search_operators
search_operators(department, base_url) ==
    IF Truthy(department)
    THEN get_operators_by_department(department.s, base_url)
    ELSE get_all_operators(base_url)

\* [op for op in operators if op.get("status") == status]
StatusFilter(operators, status) ==
    PyList(SelectSeq(operators.l, LAMBDA op : Get(op, "status") = status))

\* filters that give None when no operator is left
ApplyFilters_none_when_empty(operators, status) ==
    LET filtered == IF Truthy(status) THEN StatusFilter(operators, status)
                    ELSE operators
    IN  IF filtered.l = <<>> THEN None ELSE filtered

\* the filters search_operators applies to the list it fetched
ApplyFilters(operators, status) ==
    IF Truthy(status) THEN StatusFilter(operators, status) ELSE operators

\* a safe_get_operator that re-raises every HTTP status error, 404 included
safe_get_operator_reraise_404(r) ==
    IF r.tag = "return" THEN r
    ELSE IF IsInstance(r.exc, "HTTPStatusError") THEN r
         ELSE IF IsInstance(r.exc, "HTTPError") THEN Return(None) ELSE r

\* a safe_get_operator without the `except httpx.HTTPError` clause
safe_get_operator_status_only(r) ==
    IF r.tag = "return" THEN r
    ELSE IF IsInstance(r.exc, "HTTPStatusError")
         THEN IF r.exc.status_code = 404 THEN Return(None) ELSE r
         ELSE r

\* a safe_get_operator that gives None for every HTTP status error
safe_get_operator_swallow_status(r) ==
    IF r.tag = "return" THEN r
    ELSE IF IsInstance(r.exc, "HTTPError") THEN Return(None) ELSE r

\* the try/except of safe_get_operator around get_operator_by_id
safe_get_operator(r) ==
    IF r.tag = "return" THEN r
    ELSE IF IsInstance(r.exc, "HTTPStatusError")
         THEN IF r.exc.status_code = 404 THEN Return(None) ELSE r
         ELSE IF IsInstance(r.exc, "HTTPError") THEN Return(None) ELSE r

(***************************************************************************)
(* State.                                                                  *)
(*   pc[p]        "idle", "wait" (suspended in await client.request) or    *)
(*                "done" (the call returned or raised)                     *)
(*   call[p]      the public function coroutine p runs and its arguments   *)
(*   locals[p]    local variables of the running function                  *)
(*   result[p]    what the call returned or raised                         *)
(*   requests[p]  the HTTP requests the call issued, in order              *)
(*   responses[p] the outcome of each of these requests, as far as known   *)
(*   open[p]      the requests whose AsyncClient is still open             *)
(*   clock        the system clock, in seconds                             *)
(*   server       the answer the server currently gives, for the one URL   *)
(*                the model follows; at every other URL the data of the    *)
(*                server may change between any two requests               *)
(***************************************************************************)
NoCall == [fn |-> "none", args |-> NoArgs]
NoLocals == [operator |-> None, lots |-> None, fetched |-> None, operators |-> None]

Init ==
    /\ pc = [p \in Procs |-> "idle"]
    /\ call = [p \in Procs |-> NoCall]
    /\ locals = [p \in Procs |-> NoLocals]
    /\ result = [p \in Procs |-> NoResult]
    /\ requests = [p \in Procs |-> <<>>]
    /\ responses = [p \in Procs |-> <<>>]
    /\ open = [p \in Procs |-> {}]
    /\ server = <<>>
    /\ clock = 0

\* the request a public function issues before its first await
FirstRequest(fn, args) ==
    CASE fn \in {"get_operator_by_id", "safe_get_operator", "get_operator_summary"} ->
            get_operator_by_id(args.operator_id, args.base_url)
      [] fn = "get_all_operators" -> get_all_operators(args.base_url)
      [] fn = "get_operator_lots" -> get_operator_lots(args.operator_id, args.base_url)
      [] fn = "get_operators_by_department" ->
            get_operators_by_department(args.department.s, args.base_url)
      [] fn = "get_operator_by_code" -> get_operator_by_code(args.code, args.base_url)
      [] fn = "search_operators" -> search_operators(args.department, args.base_url)

\* a caller awaits a public function: it runs up to `await client.request`
Call(p, fn, args) ==
    /\ pc[p] = "idle"
    /\ pc' = [pc EXCEPT ![p] = "wait"]
    /\ call' = [call EXCEPT ![p] = [fn |-> fn, args |-> args]]
    /\ locals' = [locals EXCEPT ![p] = NoLocals]
    /\ result' = [result EXCEPT ![p] = NoResult]
    /\ requests' = [requests EXCEPT ![p] = <<FirstRequest(fn, args)>>]
    /\ responses' = [responses EXCEPT ![p] = <<>>]
    /\ open' = [open EXCEPT ![p] = {1}]
    /\ UNCHANGED <<server, clock>>

\* an end of call that closes the client only when no exception is raised
Done_leak_on_raise(p, r, loc) ==
    /\ pc' = [pc EXCEPT ![p] = "done"]
    /\ result' = [result EXCEPT ![p] = r]
    /\ locals' = [locals EXCEPT ![p] = loc]
    /\ open' = [open EXCEPT ![p] = IF r.tag = "raise" THEN @
                                   ELSE @ \ {Len(requests[p])}]
    /\ UNCHANGED <<call, requests>>

\* the call ends: `async with` has closed the client of the last request
Done(p, r, loc) ==
    /\ pc' = [pc EXCEPT ![p] = "done"]
    /\ result' = [result EXCEPT ![p] = r]
    /\ locals' = [locals EXCEPT ![p] = loc]
    /\ open' = [open EXCEPT ![p] = @ \ {Len(requests[p])}]
    /\ UNCHANGED <<call, requests>>

\* a get_operator_summary that keeps the operator in a module-level variable
SecondRequest_shared_operator(p, operator) ==
    /\ pc' = [pc EXCEPT ![p] = "wait"]
    /\ locals' = [q \in Procs |-> [locals[q] EXCEPT !.operator = operator]]
    /\ requests' = [requests EXCEPT ![p] =
                      Append(@, get_operator_lots(call[p].args.operator_id,
                                                  call[p].args.base_url))]
    /\ open' = [open EXCEPT ![p] = (@ \ {Len(requests[p])}) \cup {Len(requests[p]) + 1}]
    /\ UNCHANGED <<call, result>>

\* get_operator_summary after get_operator_by_id returned: the lots request
SecondRequest(p, operator) ==
    /\ pc' = [pc EXCEPT ![p] = "wait"]
    /\ locals' = [locals EXCEPT ![p].operator = operator]
    /\ requests' = [requests EXCEPT ![p] =
                      Append(@, get_operator_lots(call[p].args.operator_id,
                                                  call[p].args.base_url))]
    /\ open' = [open EXCEPT ![p] = (@ \ {Len(requests[p])}) \cup {Len(requests[p]) + 1}]
    /\ UNCHANGED <<call, result>>

\* the request p is waiting for
Pending(p) == requests[p][Len(requests[p])]

\* the function body resumed with the outcome of client.request
Continue(p, outcome, now) ==
    LET fn == call[p].fn
        args == call[p].args
        r == Accessor(outcome)
        loc == locals[p]
    IN  CASE fn \in Accessors -> Done(p, r, loc)
          [] fn = "safe_get_operator" -> Done(p, safe_get_operator(r), loc)
          [] fn = "search_operators" ->
                IF r.tag = "raise" THEN Done(p, r, loc)
                ELSE LET operators == ApplyFilters(r.value, args.status)
                     IN  Done(p, Return(operators),
                              [loc EXCEPT !.fetched = r.value,
                                          !.operators = operators])
          [] fn = "get_operator_summary" ->
                IF r.tag = "raise" THEN Done(p, r, loc)
                ELSE IF Len(requests[p]) = 1 THEN SecondRequest(p, r.value)
                ELSE Done(p, Return(get_operator_summary(loc.operator, r.value, now)),
                          [loc EXCEPT !.lots = r.value])

\* a _make_request that issues a failed request once more
Resume_retry_once(p, outcome, now) ==
    /\ responses' = [responses EXCEPT ![p] = Append(@, outcome)]
    /\ IF outcome.kind = "transport" /\ Len(requests[p]) < 3
       THEN /\ pc' = [pc EXCEPT ![p] = "wait"]
            /\ requests' = [requests EXCEPT ![p] = Append(@, Pending(p))]
            /\ open' = [open EXCEPT ![p] =
                            (@ \ {Len(requests[p])}) \cup {Len(requests[p]) + 1}]
            /\ UNCHANGED <<call, locals, result>>
       ELSE Continue(p, outcome, now)

\* a get_operator_summary that treats a failed lots request as no lots
Resume_partial_summary(p, outcome, now) ==
    /\ responses' = [responses EXCEPT ![p] = Append(@, outcome)]
    /\ IF /\ call[p].fn = "get_operator_summary"
          /\ Len(requests[p]) = 2
          /\ Accessor(outcome).tag = "raise"
       THEN Done(p, Return(get_operator_summary(locals[p].operator, PyList(<<>>), now)),
                 [locals[p] EXCEPT !.lots = PyList(<<>>)])
       ELSE Continue(p, outcome, now)

\* the coroutine is resumed with the outcome of client.request and runs to
\* its next await or to its end
Resume(p, outcome, now) ==
    /\ responses' = [responses EXCEPT ![p] = Append(@, outcome)]
    /\ Continue(p, outcome, now)

\* the server answers the pending request of p
ServerRespond(p) ==
    /\ pc[p] = "wait"
    /\ LET url == Pending(p).url
       IN  IF url \in DOMAIN server
           THEN /\ Resume(p, server[url], clock)
                /\ UNCHANGED server
           ELSE \E response \in ResponsesOf(Pending(p).shape) :
                  /\ Resume(p, response, clock)
                  /\ server' = IF DOMAIN server = {}
                               THEN (url :> response)
                               ELSE server
    /\ UNCHANGED clock

\* the pending request of p fails before a response arrives
TransportFailure(p) ==
    /\ pc[p] = "wait"
    /\ \E failure \in TransportFailures : Resume(p, failure, clock)
    /\ UNCHANGED <<server, clock>>

\* the caller has taken the result
Finish(p) ==
    /\ pc[p] = "done"
    /\ pc' = [pc EXCEPT ![p] = "idle"]
    /\ call' = [call EXCEPT ![p] = NoCall]
    /\ locals' = [locals EXCEPT ![p] = NoLocals]
    /\ result' = [result EXCEPT ![p] = NoResult]
    /\ requests' = [requests EXCEPT ![p] = <<>>]
    /\ responses' = [responses EXCEPT ![p] = <<>>]
    /\ UNCHANGED <<open, server, clock>>

\* the data of the server changes: its answer for url is no longer known
ServerUpdate(url) ==
    /\ url \in DOMAIN server
    /\ \A p \in Procs : pc[p] # "wait"
    /\ server' = [u \in DOMAIN server \ {url} |-> server[u]]
    /\ UNCHANGED <<pc, call, locals, result, requests, responses, open, clock>>

\* time passes
Tick ==
    /\ clock < MaxClock
    /\ clock' = clock + 1
    /\ UNCHANGED <<pc, call, locals, result, requests, responses, open, server>>

\* no call is running
Quiet == \A p \in Procs : pc[p] = "idle"

\* a caller awaits a public call when no other call is running
AwaitCall(p, fn, args) == Quiet /\ Call(p, fn, args)

\* the coroutine that awaits one public call after the other
MainCaller == "c1"

\* one coroutine awaits one public call after the other
Next ==
    \/ \E fn \in Functions : \E args \in CallsOf(fn) : AwaitCall(MainCaller, fn, args)
    \/ \E p \in Procs : ServerRespond(p)
    \/ \E p \in Procs : TransportFailure(p)
    \/ \E p \in Procs : Finish(p)
    \/ \E url \in DOMAIN server : ServerUpdate(url)
    \/ Tick

Spec == Init /\ [][Next]_vars

(***************************************************************************)
(* Concurrent calls against a server whose data does not change: two       *)
(* coroutines await public calls independently of each other, and the      *)
(* server gives one fixed answer per URL.                                  *)
(***************************************************************************)
\* the calls the two coroutines choose from
ConcurrentCallsOf(fn) ==
    CASE fn \in {"get_operator_summary", "get_operator_by_id"} ->
            {[NoArgs EXCEPT !.operator_id = i] : i \in OperatorIds}
      [] fn \in {"get_operator_lots", "safe_get_operator"} ->
            {[NoArgs EXCEPT !.operator_id = 1]}
      [] fn = "get_all_operators" -> {NoArgs}
      [] fn = "get_operators_by_department" ->
            {[NoArgs EXCEPT !.department = PyStr("Production")]}
      [] fn = "get_operator_by_code" -> {[NoArgs EXCEPT !.code = "OP001"]}
      [] fn = "search_operators" ->
            {[NoArgs EXCEPT !.department = PyStr("Production"),
                            !.status = PyStr("Active")],
             [NoArgs EXCEPT !.status = PyStr("")]}

\* the requests these calls can issue
ConcurrentRequests ==
    UNION {{FirstRequest(fn, args) : args \in ConcurrentCallsOf(fn)} : fn \in Functions}
    \cup {get_operator_lots(i, DEFAULT_BASE_URL) : i \in OperatorIds}

\* the operators of the server, by operatorId
AllOperators ==
    [i \in 1..Cardinality(OperatorRecords) |->
        CHOOSE o \in OperatorRecords : o.d.operatorId = PyInt(i)]

\* the answers a server with fixed data gives to a request
StableResponsesOf(request) ==
    CASE request.shape = "operator" ->
            {HttpResponse(200, JsonBody(o)) : o \in OperatorRecords}
            \cup {HttpResponse(404, NotJson)}
      [] request.shape = "operators" ->
            {HttpResponse(200, JsonBody(PyList(AllOperators)))}
      [] request.shape = "lots" ->
            {HttpResponse(200, JsonBody(PyList(<<>>))), HttpResponse(500, NotJson)}

InitStable ==
    /\ pc = [p \in Procs |-> "idle"]
    /\ call = [p \in Procs |-> NoCall]
    /\ locals = [p \in Procs |-> NoLocals]
    /\ result = [p \in Procs |-> NoResult]
    /\ requests = [p \in Procs |-> <<>>]
    /\ responses = [p \in Procs |-> <<>>]
    /\ open = [p \in Procs |-> {}]
    /\ clock = 0
    /\ \E answer \in [ConcurrentRequests -> UNION {StableResponsesOf(r) : r \in ConcurrentRequests}] :
          /\ \A r \in ConcurrentRequests : answer[r] \in StableResponsesOf(r)
          /\ server = [url \in {r.url : r \in ConcurrentRequests} |->
                          answer[CHOOSE r \in ConcurrentRequests : r.url = url]]

\* the coroutines await public calls independently of each other
NextConcurrent ==
    \/ \E p \in Procs, fn \in Functions : \E args \in ConcurrentCallsOf(fn) : Call(p, fn, args)
    \/ \E p \in Procs : ServerRespond(p)
    \/ \E p \in Procs : TransportFailure(p)
    \/ \E p \in Procs : Finish(p)
    \/ Tick

SpecConcurrent == InitStable /\ [][NextConcurrent]_vars

(***************************************************************************)
(* Vocabulary of the properties.                                           *)
(***************************************************************************)
Running(p, fn) == call[p].fn = fn
Ended(p, fn) == pc[p] = "done" /\ call[p].fn = fn
Returned(p) == result[p].tag = "return"

\* the i-th request of p was answered with an HTTP status / failed in transport
Answered(p, i) == i \in DOMAIN responses[p] /\ responses[p][i].kind = "response"
AnsweredWith(p, i, status) == Answered(p, i) /\ responses[p][i].status = status
TransportFailed(p, i) == i \in DOMAIN responses[p] /\ responses[p][i].kind = "transport"
\* the i-th request of p was answered 2xx with a JSON body
AnsweredJson(p, i) ==
    /\ Answered(p, i)
    /\ responses[p][i].status \in 200..299
    /\ responses[p][i].body.kind = "json"
BodyOf(p, i) == responses[p][i].body.value

(***************************************************************************)
(* C1: whenever GET /operators/{id} answers 404, safe_get_operator(id)     *)
(* returns None and does not raise, for every id.                          *)
(***************************************************************************)
C1_SafeGet404ReturnsNone ==
    \A p \in Procs :
        Ended(p, "safe_get_operator") /\ AnsweredWith(p, 1, 404)
            => result[p] = Return(None)

C1_Witness ==
    \E p \in Procs :
        /\ Ended(p, "safe_get_operator")
        /\ call[p].args.operator_id = 999
        /\ AnsweredWith(p, 1, 404)
        /\ result[p] = Return(None)

(***************************************************************************)
(* C2: whenever the request fails at transport level (connection refused,  *)
(* timeout), safe_get_operator returns None, the very result it gives for  *)
(* a 404, so the caller cannot tell the two apart.                         *)
(***************************************************************************)
C2_SafeGetTransportLikeNotFound ==
    \A p \in Procs :
        Ended(p, "safe_get_operator") /\ TransportFailed(p, 1)
            => /\ result[p] = Return(None)
               /\ result[p] = safe_get_operator(Accessor(HttpResponse(404, NotJson)))

C2_Witness ==
    \E p \in Procs :
        /\ Ended(p, "safe_get_operator")
        /\ TransportFailed(p, 1)
        /\ responses[p][1].error = "ConnectError"
        /\ result[p] = Return(None)

(***************************************************************************)
(* C3: safe_get_operator never raises: after a success, a 404, any other   *)
(* non-2xx status or a transport failure it returns the operator record or *)
(* None.                                                                   *)
(***************************************************************************)
C3_SafeGetNeverRaises ==
    \A p \in Procs :
        /\ Ended(p, "safe_get_operator")
        /\ \/ TransportFailed(p, 1)
           \/ AnsweredJson(p, 1)
           \/ Answered(p, 1) /\ responses[p][1].status \notin 200..299
        => /\ Returned(p)
           /\ \/ result[p].value = None
              \/ AnsweredJson(p, 1) /\ result[p].value = BodyOf(p, 1)

(***************************************************************************)
(* C4: each of the five accessors raises an HTTP status error carrying the *)
(* status code, and returns no body, whenever the status of the response   *)
(* is not 2xx (get_operator_by_id raises a 404 error on a 404), and        *)
(* returns the JSON body of the server unchanged whenever it is 2xx.       *)
(***************************************************************************)
C4_AccessorRaisesOnNon2xx ==
    \A p \in Procs :
        pc[p] = "done" /\ call[p].fn \in Accessors /\ Answered(p, 1)
            => /\ responses[p][1].status \notin 200..299
                    => result[p] = Raise(HTTPStatusError(responses[p][1].status))
               /\ AnsweredJson(p, 1) => result[p] = Return(BodyOf(p, 1))

C4_Witness ==
    \E p \in Procs :
        /\ Ended(p, "get_operator_by_id")
        /\ AnsweredWith(p, 1, 404)
        /\ result[p] = Raise(HTTPStatusError(404))

(***************************************************************************)
(* C5: in every record get_operator_summary returns, total_lots is the     *)
(* number of elements of lots, whatever list the server sent, the empty    *)
(* list included.                                                          *)
(***************************************************************************)
C5_TotalLotsIsLenOfLots ==
    \A p \in Procs :
        Ended(p, "get_operator_summary") /\ Returned(p)
            => result[p].value.d.total_lots = PyInt(Len(result[p].value.d.lots.l))

C5_Witness ==
    \E p \in Procs :
        /\ Ended(p, "get_operator_summary")
        /\ Returned(p)
        /\ result[p].value.d.lots = PyList(<<>>)
        /\ result[p].value.d.total_lots = PyInt(0)

(***************************************************************************)
(* C6: when both requests succeed, get_operator_summary(id) returns a      *)
(* record whose operator is the body of GET /operators/{id}, whose lots is *)
(* the body of GET /operators/{id}/lots and whose departments is the       *)
(* one-element list of the department of that operator.                    *)
(***************************************************************************)
DepartmentOf(operator) ==
    IF "department" \in DOMAIN operator.d THEN operator.d["department"] ELSE None

C6_SummaryIsTheTwoBodies ==
    \A p \in Procs :
        Ended(p, "get_operator_summary") /\ AnsweredJson(p, 1) /\ AnsweredJson(p, 2)
            => /\ Returned(p)
               /\ requests[p][1].url =
                    call[p].args.base_url \o "/operators/"
                        \o ToString(call[p].args.operator_id)
               /\ requests[p][2].url =
                    call[p].args.base_url \o "/operators/"
                        \o ToString(call[p].args.operator_id) \o "/lots"
               /\ result[p].value.d.operator = BodyOf(p, 1)
               /\ result[p].value.d.lots = BodyOf(p, 2)
               /\ result[p].value.d.departments = PyList(<<DepartmentOf(BodyOf(p, 1))>>)

C6_Witness ==
    \E p \in Procs :
        /\ Ended(p, "get_operator_summary")
        /\ call[p].args.operator_id = 1
        /\ AnsweredJson(p, 1) /\ AnsweredJson(p, 2)
        /\ Returned(p)
        /\ result[p].value.d.operator.d.operatorName = PyStr("John Smith")
        /\ Len(result[p].value.d.lots.l) = 2
        /\ result[p].value.d.total_lots = PyInt(2)
        /\ result[p].value.d.departments = PyList(<<PyStr("Production")>>)

(***************************************************************************)
(* C7: search_operators issues GET /operators/department/{department} for  *)
(* every department that is given (every value other than None) and GET    *)
(* /operators only when none is given, exactly one request per call.       *)
(***************************************************************************)
C7_DepartmentGivenSelectsEndpoint ==
    \A p \in Procs :
        Running(p, "search_operators")
            => /\ Len(requests[p]) = 1
               /\ requests[p][1].method = "GET"
               /\ requests[p][1].url =
                    IF call[p].args.department # None
                    THEN call[p].args.base_url \o "/operators/department/"
                            \o call[p].args.department.s
                    ELSE call[p].args.base_url \o "/operators"

(***************************************************************************)
(* C8: for every status s given to search_operators (every value other     *)
(* than None) and every response of the server, every record of the        *)
(* returned list has its status field equal to s.                          *)
(***************************************************************************)
StatusOf(operator) ==
    IF "status" \in DOMAIN operator.d THEN operator.d["status"] ELSE None

C8_StatusGivenFiltersResult ==
    \A p \in Procs :
        Ended(p, "search_operators") /\ Returned(p) /\ call[p].args.status # None
            => \A i \in DOMAIN result[p].value.l :
                    StatusOf(result[p].value.l[i]) = call[p].args.status

(***************************************************************************)
(* C9: the list search_operators(department=d, status=s) returns is a      *)
(* subsequence of the list the server returns for                          *)
(* get_operators_by_department(d), or for get_all_operators when no        *)
(* department is given; it holds every record of that list whose status    *)
(* is s, and the list received from the server is not modified.            *)
(***************************************************************************)
RECURSIVE IsSubseq(_, _)
IsSubseq(a, b) ==
    IF a = <<>> THEN TRUE
    ELSE IF b = <<>> THEN FALSE
    ELSE IF Head(a) = Head(b) THEN IsSubseq(Tail(a), Tail(b))
    ELSE IsSubseq(a, Tail(b))

WithStatus(l, status) == SelectSeq(l, LAMBDA op : StatusOf(op) = status)

\* the URL of get_operators_by_department(d), of get_all_operators without d
ListUrlFor(args) ==
    IF args.department # None
    THEN args.base_url \o "/operators/department/" \o args.department.s
    ELSE args.base_url \o "/operators"

\* the server answers url with a list
ServesList(url) ==
    /\ url \in DOMAIN server
    /\ server[url].status \in 200..299
    /\ server[url].body.kind = "json"

C9_ResultIsSubsequenceOfServerList ==
    \A p \in Procs :
        Ended(p, "search_operators") /\ Returned(p)
            => /\ locals[p].fetched = BodyOf(p, 1)
               /\ ServesList(ListUrlFor(call[p].args))
                    => LET served == server[ListUrlFor(call[p].args)].body.value.l
                           returned == result[p].value.l
                       IN  /\ IsSubseq(returned, served)
                           /\ WithStatus(returned, call[p].args.status)
                                = WithStatus(served, call[p].args.status)

\* C9 where the department is None or selects the department endpoint
C9_WhereDepartmentIsHonoured ==
    \A p \in Procs :
        /\ Ended(p, "search_operators") /\ Returned(p)
        /\ (call[p].args.department = None \/ Truthy(call[p].args.department))
        /\ ServesList(ListUrlFor(call[p].args))
        => LET served == server[ListUrlFor(call[p].args)].body.value.l
               returned == result[p].value.l
           IN  /\ IsSubseq(returned, served)
               /\ WithStatus(returned, call[p].args.status)
                    = WithStatus(served, call[p].args.status)

(***************************************************************************)
(* C10: when the server answers the list request with a successful empty   *)
(* sequence, search_operators does not raise and returns an empty list,    *)
(* for every combination of department and status.                         *)
(***************************************************************************)
C10_EmptyListGivesEmptyList ==
    \A p \in Procs :
        /\ Ended(p, "search_operators")
        /\ AnsweredJson(p, 1)
        /\ BodyOf(p, 1) = PyList(<<>>)
        => result[p] = Return(PyList(<<>>))

C10_Witness ==
    \E p \in Procs :
        /\ Ended(p, "search_operators")
        /\ call[p].args.department = PyStr("Production")
        /\ call[p].args.status = PyStr("Active")
        /\ AnsweredJson(p, 1)
        /\ BodyOf(p, 1) = PyList(<<>>)
        /\ result[p] = Return(PyList(<<>>))

(***************************************************************************)
(* C11: the library performs zero retries: no request is issued again      *)
(* after it failed, and a public call issues exactly one request (the five *)
(* accessors, search_operators, safe_get_operator) or at most two          *)
(* (get_operator_summary).                                                 *)
(***************************************************************************)
\* the i-th request of p failed: no response, or a status that is not 2xx
Failed(p, i) ==
    \/ TransportFailed(p, i)
    \/ Answered(p, i) /\ responses[p][i].status \notin 200..299

C11_NoRetries ==
    \A p \in Procs :
        pc[p] # "idle"
            => /\ call[p].fn # "get_operator_summary" => Len(requests[p]) = 1
               /\ call[p].fn = "get_operator_summary" => Len(requests[p]) \in {1, 2}
               /\ \A i \in DOMAIN responses[p] : Failed(p, i) => Len(requests[p]) = i

C11_Witness ==
    \E p \in Procs :
        /\ Ended(p, "get_operator_summary")
        /\ Len(requests[p]) = 2
        /\ TransportFailed(p, 2)

(***************************************************************************)
(* C12: every request of a public call is a GET whose URL is the base URL  *)
(* passed by the caller followed by the documented path; the utility       *)
(* functions pass the base URL of the caller to every request, so no       *)
(* request of a call with another base URL goes to the default base URL.   *)
(***************************************************************************)
IdPath(args) == "/operators/" \o ToString(args.operator_id)

\* the documented paths the i-th request of a call may have
DocumentedPaths(fn, args, i) ==
    CASE fn \in {"get_operator_by_id", "safe_get_operator"} -> {IdPath(args)}
      [] fn = "get_all_operators" -> {"/operators"}
      [] fn = "get_operator_lots" -> {IdPath(args) \o "/lots"}
      [] fn = "get_operators_by_department" ->
            {"/operators/department/" \o args.department.s}
      [] fn = "get_operator_by_code" -> {"/operators/code/" \o args.code}
      [] fn = "get_operator_summary" ->
            IF i = 1 THEN {IdPath(args)} ELSE {IdPath(args) \o "/lots"}
      [] fn = "search_operators" ->
            {"/operators"} \cup
            (IF args.department = None THEN {}
             ELSE {"/operators/department/" \o args.department.s})

C12_RequestsUseCallersBaseUrl ==
    \A p \in Procs : \A i \in DOMAIN requests[p] :
        LET args == call[p].args
            paths == DocumentedPaths(call[p].fn, args, i)
        IN  /\ requests[p][i].method = "GET"
            /\ requests[p][i].url \in {args.base_url \o path : path \in paths}
            /\ args.base_url # DEFAULT_BASE_URL
                => requests[p][i].url \notin {DEFAULT_BASE_URL \o path : path \in paths}

C12_Witness ==
    \E p \in Procs :
        /\ Running(p, "get_operator_summary")
        /\ call[p].args.base_url = OtherBaseUrl
        /\ Len(requests[p]) = 2
        /\ requests[p][2].url = OtherBaseUrl \o "/operators/1/lots"

(***************************************************************************)
(* C15: get_operator_summary issues the operator request before the lots   *)
(* request, and the lots request only after the operator response was      *)
(* received; when the operator request fails the lots request is never     *)
(* issued, and when either request fails the error propagates and no       *)
(* partial record is returned.                                             *)
(***************************************************************************)
\* the exception an outcome that is not a 2xx JSON response leads to
ErrorOf(outcome) ==
    IF outcome.kind = "transport" THEN TransportError(outcome.error)
    ELSE IF outcome.status \notin 200..299 THEN HTTPStatusError(outcome.status)
    ELSE JSONDecodeError

C15_SummaryIsSequentialAndAllOrNothing ==
    \A p \in Procs :
        Running(p, "get_operator_summary")
            => /\ requests[p][1].url = call[p].args.base_url \o IdPath(call[p].args)
               /\ Len(requests[p]) = 2
                    => /\ requests[p][2].url =
                            call[p].args.base_url \o IdPath(call[p].args) \o "/lots"
                       /\ AnsweredJson(p, 1)
               /\ \A i \in DOMAIN responses[p] :
                    ~AnsweredJson(p, i)
                        => /\ pc[p] = "done"
                           /\ Len(requests[p]) = i
                           /\ result[p] = Raise(ErrorOf(responses[p][i]))
               /\ Returned(p) => AnsweredJson(p, 1) /\ AnsweredJson(p, 2)

C15_Witness ==
    \E p \in Procs :
        /\ Ended(p, "get_operator_summary")
        /\ Len(requests[p]) = 2
        /\ AnsweredJson(p, 1)
        /\ AnsweredWith(p, 2, 500)
        /\ result[p] = Raise(HTTPStatusError(500))

(***************************************************************************)
(* C16: the client _make_request opens for a request is closed on every    *)
(* exit path, so no client remains open once the calls have returned or    *)
(* raised, and each request uses a client of its own.                      *)
(***************************************************************************)
C16_ClientsAreClosed ==
    \A p \in Procs :
        /\ pc[p] = "wait" => open[p] = {Len(requests[p])}
        /\ pc[p] # "wait" => open[p] = {}

C16_Witness ==
    \E p \in Procs :
        /\ Ended(p, "get_operator_summary")
        /\ Len(requests[p]) = 2
        /\ result[p].tag = "raise"
        /\ open[p] = {}

C14_FieldsNamedAsStated ==
    \A p \in Procs :
        Ended(p, "get_operator_summary") /\ Returned(p)
            => DOMAIN result[p].value.d =
                 {"operator", "lots", "total_lots", "departments", "generated_at"}

(***************************************************************************)
(* C14 as amended: the record get_operator_summary returns has exactly the *)
(* five fields operator, lots, total_lots, departments and                 *)
(* summary_generated_at, and summary_generated_at holds the ISO timestamp  *)
(* of the moment the record is built.                                      *)
(***************************************************************************)
C14_SummaryFields ==
    [][\A p \in Procs :
          /\ pc[p] = "wait"
          /\ pc'[p] = "done"
          /\ call[p].fn = "get_operator_summary"
          /\ result'[p].tag = "return"
          => /\ DOMAIN result'[p].value.d =
                  {"operator", "lots", "total_lots", "departments",
                   "summary_generated_at"}
             /\ result'[p].value.d.summary_generated_at = PyStr(isoformat(clock))]_vars

C14_Witness ==
    \E p \in Procs :
        /\ Ended(p, "get_operator_summary")
        /\ Returned(p)
        /\ DOMAIN result[p].value.d =
             {"operator", "lots", "total_lots", "departments", "summary_generated_at"}
        /\ result[p].value.d.summary_generated_at = PyStr("2024-01-15T08:00:01")

(***************************************************************************)
(* C13: independent calls share no mutable state: with two public calls    *)
(* running concurrently against a server whose data does not change,       *)
(* every interleaving gives each call a result it gives when run alone,    *)
(* and no step of one call changes anything of the other call.             *)
(***************************************************************************)
\* what a request can come back with when its call runs alone
OutcomesAlone(request) == {server[request.url]} \cup TransportFailures

\* the results a call can have when it runs alone against the server
ResultsAlone(fn, args) ==
    LET firsts == {Accessor(o) : o \in OutcomesAlone(FirstRequest(fn, args))}
    IN  CASE fn \in Accessors -> firsts
          [] fn = "safe_get_operator" -> {safe_get_operator(r) : r \in firsts}
          [] fn = "search_operators" ->
                {IF r.tag = "raise" THEN r
                 ELSE Return(ApplyFilters(r.value, args.status)) : r \in firsts}
          [] fn = "get_operator_summary" ->
                UNION {IF r.tag = "raise" THEN {r}
                       ELSE UNION {IF l.tag = "raise" THEN {l}
                                   ELSE {Return(get_operator_summary(r.value, l.value, t)) :
                                            t \in 0..MaxClock} :
                                   l \in {Accessor(o) : o \in OutcomesAlone(
                                            get_operator_lots(args.operator_id,
                                                              args.base_url))}} :
                       r \in firsts}

\* everything coroutine p holds
StateOf(p) == <<pc[p], call[p], locals[p], result[p], requests[p], responses[p], open[p]>>

C13_ConcurrentCallsDoNotInterfere ==
    /\ [](\A p \in Procs :
            pc[p] = "done" => result[p] \in ResultsAlone(call[p].fn, call[p].args))
    /\ [][\A p, q \in Procs :
            p # q /\ pc'[p] # pc[p] => StateOf(q)' = StateOf(q)]_vars

\* both coroutines are in get_operator_summary, for different operators, and
\* one has returned its record while the other waits for its lots
C13_Witness ==
    \E p, q \in Procs :
        /\ p # q
        /\ Ended(p, "get_operator_summary") /\ Returned(p)
        /\ Running(q, "get_operator_summary") /\ pc[q] = "wait"
        /\ Len(requests[q]) = 2
        /\ locals[q].operator # result[p].value.d.operator

====
